---- MODULE Spec2Model ----
(***************************************************************************)
(* Workspace discovery of axoproject: the generic (dist.toml) detector of  *)
(* src/generic.rs and the JS (package.json) detector of src/javascript.rs. *)
(*                                                                         *)
(* Both detectors are functions of the filesystem and of the directory the *)
(* search starts in.  The state is that input (the manifests on disk, the  *)
(* conventional files the scanner sees, the start and clamp directories,   *)
(* the process's current directory) and the value each detector returned.  *)
(***************************************************************************)
EXTENDS Integers, Sequences, FiniteSets, TLC

VARIABLES
    dist_toml,      \* directory -> what <directory>/dist.toml holds
    package_json,   \* directory -> what <directory>/package.json holds
    auto_scan,      \* what the conventional-file scan of a directory gives
    start_dir,      \* get_workspace's start_dir
    clamp_to_dir,   \* get_workspace's clamp_to_dir (an Option)
    current_dir,    \* std::env::current_dir() of the process
    search,         \* the WorkspaceSearch get_workspace returned
    trace,          \* what workspace_from computed on the way
    project         \* the outcome of get_project

vars == <<dist_toml, package_json, auto_scan, start_dir, clamp_to_dir,
          current_dir, search, trace, project>>

-----------------------------------------------------------------------------
(* Option<T>: None is the empty sequence, Some(x) a one-element sequence.   *)
None == <<>>
Some(x) == <<x>>
IsSome(o) == o # None
Unwrap(o) == o[1]

(* Result<T>: both shapes carry both fields, the unused one empty.          *)
Ok(v) == [ok |-> TRUE, val |-> <<v>>, err |-> <<>>]
Err(e) == [ok |-> FALSE, val |-> <<>>, err |-> <<e>>]
ValOf(r) == r.val[1]
ErrOf(r) == r.err[1]

-----------------------------------------------------------------------------
(* Paths (camino::Utf8PathBuf) are sequences of components; an absolute     *)
(* path starts with the root component "/".                                 *)
RootDir == <<"/">>
IsAbsolute(p) == Len(p) > 0 /\ p[1] = "/"

\* Utf8Path::join: an absolute argument replaces the base
Join(base, p) == IF IsAbsolute(p) THEN p ELSE base \o p

\* Utf8Path::parent: None for the root and for the empty path
Parent(p) ==
    IF Len(p) = 0 \/ p = RootDir THEN None ELSE Some(SubSeq(p, 1, Len(p) - 1))

FileName(p) == IF Len(p) = 0 \/ p = RootDir THEN None ELSE Some(p[Len(p)])

\* d is p or an ancestor of p
IsPrefix(d, p) == Len(d) <= Len(p) /\ SubSeq(p, 1, Len(d)) = d

-----------------------------------------------------------------------------
(* Files.  A manifest file is absent, present but unreadable, readable but  *)
(* rejected by the deserializer, or readable and deserialized to a record.  *)
NoFile == [kind |-> "NoFile"]
Unreadable == [kind |-> "Unreadable"]
Unparsable == [kind |-> "Unparsable"]
Parsed(m) == [kind |-> "Parsed", manifest |-> m]

\* what the file at an absolute path holds
FileAt(path) ==
    IF Parent(path) = None THEN NoFile
    ELSE IF /\ FileName(path) = Some("dist.toml")
            /\ Unwrap(Parent(path)) \in DOMAIN dist_toml
         THEN dist_toml[Unwrap(Parent(path))]
    ELSE IF /\ FileName(path) = Some("package.json")
            /\ Unwrap(Parent(path)) \in DOMAIN package_json
         THEN package_json[Unwrap(Parent(path))]
    ELSE NoFile

(* Errors (AxoprojectError and the errors of the libraries it wraps).       *)
FileNotFound(name, start, clamp) ==
    [kind |-> "FileNotFound", name |-> name, start |-> start, clamp |-> clamp]
ReadError(path) == [kind |-> "ReadError", path |-> path]
ParseError(path) == [kind |-> "ParseError", path |-> path]
DistTomlMalformedError(path) == [kind |-> "DistTomlMalformedError", path |-> path]
PackageMissingError(path) == [kind |-> "PackageMissingError", path |-> path]
AutoIncludeError(dir) == [kind |-> "AutoIncludeError", path |-> dir]

-----------------------------------------------------------------------------
(* Collaborators of the crate root.                                         *)

\* crate::find_file: the nearest <dir>/<name> from start upward; the clamp
\* directory is still searched, its parents are not
RECURSIVE find_file_from(_, _, _, _)
find_file_from(name, dir, start, clamp) ==
    IF FileAt(Join(dir, <<name>>)) # NoFile
    THEN Ok(Join(dir, <<name>>))
    ELSE IF clamp = Some(dir) \/ Parent(dir) = None
         THEN Err(FileNotFound(name, start, clamp))
         ELSE find_file_from(name, Unwrap(Parent(dir)), start, clamp)

find_file(name, start, clamp) == find_file_from(name, start, start, clamp)

\* crate::find_auto_includes: the conventional files of a directory, as
\* paths below it, or an error when the directory cannot be listed
find_auto_includes(dir) ==
    IF auto_scan.kind = "Failed"
    THEN Err(AutoIncludeError(dir))
    ELSE Ok([readme |-> IF IsSome(auto_scan.readme)
                        THEN Some(Join(dir, Unwrap(auto_scan.readme)))
                        ELSE None,
             licenses |-> [i \in 1..Len(auto_scan.licenses) |->
                              Join(dir, auto_scan.licenses[i])],
             changelog |-> IF IsSome(auto_scan.changelog)
                           THEN Some(Join(dir, Unwrap(auto_scan.changelog)))
                           ELSE None])

\* crate::merge_auto_includes: fill readme_file, license_files and
\* changelog_file where the package declared none
merge_auto_includes(info, auto_includes) ==
    [info EXCEPT
        !.readme_file = IF IsSome(@) THEN @ ELSE auto_includes.readme,
        !.license_files = IF Len(@) > 0 THEN @ ELSE auto_includes.licenses,
        !.changelog_file = IF IsSome(@) THEN @ ELSE auto_includes.changelog]

-----------------------------------------------------------------------------
(* src/generic.rs.  A Manifest is [workspace, package], both Options; a     *)
(* Workspace is [members], an Option of a list of member paths; a Package   *)
(* carries the fields the detectors' results are read for (the remaining    *)
(* fields of Package are copied to PackageInfo verbatim and not modelled).  *)

\* workspace_members with a workspace section that lists no members taken
\* for an empty member list
workspace_members_or_empty(manifest) ==
    IF IsSome(manifest.workspace)
    THEN IF IsSome(Unwrap(manifest.workspace).members)
         THEN Unwrap(manifest.workspace).members
         ELSE Some(<<>>)
    ELSE None

\* Manifest::workspace_members
workspace_members(manifest) ==
    IF IsSome(manifest.workspace)
    THEN Unwrap(manifest.workspace).members
    ELSE None

\* load_root_dist_toml: SourceFile::load_local, then deserialize_toml
load_root_dist_toml(manifest_path) ==
    CASE FileAt(manifest_path).kind \in {"NoFile", "Unreadable"} ->
            Err(ReadError(manifest_path))
      [] FileAt(manifest_path).kind = "Unparsable" ->
            Err(ParseError(manifest_path))
      [] OTHER -> Ok(FileAt(manifest_path).manifest)

\* expected_paths with a manifest of neither section taken for an empty
\* workspace
expected_paths_empty(manifest, manifest_path, workspace_dir) ==
    IF IsSome(workspace_members(manifest))
    THEN Ok([i \in 1..Len(Unwrap(workspace_members(manifest))) |->
                Join(workspace_dir, Unwrap(workspace_members(manifest))[i])])
    ELSE IF IsSome(manifest.package)
         THEN Ok(<<workspace_dir>>)
         ELSE Ok(<<>>)

\* expected_paths with the members taken back to front
expected_paths_reversed(manifest, manifest_path, workspace_dir) ==
    IF IsSome(workspace_members(manifest))
    THEN Ok([i \in 1..Len(Unwrap(workspace_members(manifest))) |->
                Join(workspace_dir,
                     Unwrap(workspace_members(manifest))[
                         Len(Unwrap(workspace_members(manifest))) + 1 - i])])
    ELSE IF IsSome(manifest.package)
         THEN Ok(<<workspace_dir>>)
         ELSE Err(DistTomlMalformedError(manifest_path))

\* workspace_from, the member paths a root manifest stands for
expected_paths(manifest, manifest_path, workspace_dir) ==
    IF IsSome(workspace_members(manifest))
    THEN Ok([i \in 1..Len(Unwrap(workspace_members(manifest))) |->
                Join(workspace_dir, Unwrap(workspace_members(manifest))[i])])
    ELSE IF IsSome(manifest.package)
         THEN Ok(<<workspace_dir>>)
         ELSE Err(DistTomlMalformedError(manifest_path))

\* package_info, the PackageInfo built from a member's package section
package_record(manifest_path, package) ==
    [manifest_path |-> manifest_path,
     package_root |-> manifest_path,
     name |-> package.name,
     publish |-> TRUE,
     repository_url |-> package.repository,
     readme_file |-> package.readme,
     license_files |-> package.license_files,
     changelog_file |-> package.changelog,
     binaries |-> package.binaries]

\* package_info
package_info(manifest_root) ==
    LET manifest_path == Join(manifest_root, <<"dist.toml">>)
        manifest == load_root_dist_toml(manifest_path)
    IN  IF ~manifest.ok THEN Err(ErrOf(manifest))
        ELSE IF IsSome(ValOf(manifest).package)
             THEN Ok(package_record(manifest_path,
                                    Unwrap(ValOf(manifest).package)))
             ELSE Err(PackageMissingError(manifest_path))

\* collect_package_info leaving out the members that fail
RECURSIVE collect_package_info_lenient(_)
collect_package_info_lenient(paths) ==
    IF Len(paths) = 0 THEN [res |-> Ok(<<>>), loaded |-> <<>>]
    ELSE LET first == package_info(Head(paths))
             rest == collect_package_info_lenient(Tail(paths))
             here == <<Join(Head(paths), <<"dist.toml">>)>>
         IN  [res |-> Ok((IF first.ok THEN <<ValOf(first)>> ELSE <<>>)
                            \o ValOf(rest.res)),
              loaded |-> here \o rest.loaded]

\* expected_paths.iter().map(package_info).collect::<Result<Vec<_>>>():
\* the packages in order, or the first error; loaded lists the manifests
\* package_info was called on
RECURSIVE collect_package_info(_)
collect_package_info(paths) ==
    IF Len(paths) = 0 THEN [res |-> Ok(<<>>), loaded |-> <<>>]
    ELSE LET first == package_info(Head(paths))
             rest == collect_package_info(Tail(paths))
             here == <<Join(Head(paths), <<"dist.toml">>)>>
         IN  IF ~first.ok
             THEN [res |-> Err(ErrOf(first)), loaded |-> here]
             ELSE IF ~rest.res.ok
                  THEN [res |-> rest.res, loaded |-> here \o rest.loaded]
                  ELSE [res |-> Ok(<<ValOf(first)>> \o ValOf(rest.res)),
                        loaded |-> here \o rest.loaded]

\* inherited_repository_url taking the first repository any package has
RECURSIVE inherited_repository_url_any(_)
inherited_repository_url_any(packages) ==
    IF Len(packages) = 0 THEN None
    ELSE IF IsSome(packages[1].repository_url) THEN packages[1].repository_url
    ELSE inherited_repository_url_any(Tail(packages))

\* workspace_info, the repository URL the workspace inherits
inherited_repository_url(packages) ==
    IF Len(packages) > 0 THEN packages[1].repository_url ELSE None

\* workspace_info
workspace_info(manifest_path, workspace_dir, paths) ==
    LET root_auto_includes == find_auto_includes(workspace_dir)
        packages == collect_package_info(paths)
    IN  IF ~root_auto_includes.ok
        THEN [res |-> Err(ErrOf(root_auto_includes)), loaded |-> <<>>]
        ELSE IF ~packages.res.ok
             THEN packages
             ELSE [res |-> Ok([kind |-> "Generic",
                               target_dir |-> Join(workspace_dir, <<"target">>),
                               workspace_dir |-> workspace_dir,
                               package_info |-> ValOf(packages.res),
                               manifest_path |-> manifest_path,
                               repository_url |->
                                   inherited_repository_url(ValOf(packages.res)),
                               root_auto_includes |-> ValOf(root_auto_includes)]),
                   loaded |-> packages.loaded]

\* workspace_from; expected is the list of member paths when one was computed,
\* loaded the manifests read, in order
workspace_from(manifest_path) ==
    LET workspace_dir == Unwrap(Parent(manifest_path))
        manifest == load_root_dist_toml(manifest_path)
        paths == expected_paths(ValOf(manifest), manifest_path, workspace_dir)
        info == workspace_info(manifest_path, workspace_dir, ValOf(paths))
    IN  IF ~manifest.ok
        THEN [res |-> Err(ErrOf(manifest)), expected |-> None,
              loaded |-> <<manifest_path>>]
        ELSE IF ~paths.ok
             THEN [res |-> Err(ErrOf(paths)), expected |-> None,
                   loaded |-> <<manifest_path>>]
             ELSE [res |-> info.res, expected |-> Some(ValOf(paths)),
                   loaded |-> <<manifest_path>> \o info.loaded]

(* WorkspaceSearch                                                          *)
Found(info) == [kind |-> "Found", info |-> info]
Missing(cause) == [kind |-> "Missing", cause |-> cause]
Broken(manifest_path, cause) ==
    [kind |-> "Broken", manifest_path |-> manifest_path, cause |-> cause]

\* get_workspace with a failed search reported as a broken manifest
get_workspace_search_broken(start, clamp) ==
    LET found == find_file("dist.toml", start, clamp)
    IN  IF ~found.ok
        THEN Broken(Join(start, <<"dist.toml">>), ErrOf(found))
        ELSE IF workspace_from(ValOf(found)).res.ok
             THEN Found(ValOf(workspace_from(ValOf(found)).res))
             ELSE Broken(ValOf(found), ErrOf(workspace_from(ValOf(found)).res))

\* get_workspace
get_workspace(start, clamp) ==
    LET found == find_file("dist.toml", start, clamp)
    IN  IF ~found.ok THEN Missing(ErrOf(found))
        ELSE IF workspace_from(ValOf(found)).res.ok
             THEN Found(ValOf(workspace_from(ValOf(found)).res))
             ELSE Broken(ValOf(found), ErrOf(workspace_from(ValOf(found)).res))

-----------------------------------------------------------------------------
(* src/javascript.rs.  A package.json is [name, author, repository], all    *)
(* Options; author is a PersonField (Str or Obj), repository a Repository   *)
(* (Str, or Obj with an optional url).                                      *)

\* workspace_root: the nearest ancestor of the current directory (itself
\* included) that holds a package.json
RECURSIVE workspace_root_from(_)
workspace_root_from(path) ==
    IF FileAt(Join(path, <<"package.json">>)) # NoFile THEN Some(path)
    ELSE IF Parent(path) = None THEN None
    ELSE workspace_root_from(Unwrap(Parent(path)))

workspace_root == workspace_root_from(current_dir)

\* load_manifest: File::open, then serde_json::from_reader
load_manifest(manifest_path) ==
    CASE FileAt(manifest_path).kind \in {"NoFile", "Unreadable"} ->
            Err(ReadError(manifest_path))
      [] FileAt(manifest_path).kind = "Unparsable" ->
            Err(ParseError(manifest_path))
      [] OTHER -> Ok(FileAt(manifest_path).manifest)

\* get_project, manifest.author to the list of authors
authors_of(author) ==
    IF IsSome(author) /\ Unwrap(author).kind = "Str"
    THEN <<Unwrap(author).s>>
    ELSE <<>>

\* get_project, manifest.repository to the repository URL
repository_url_of(repository) ==
    IF ~IsSome(repository) THEN None
    ELSE IF Unwrap(repository).kind = "Str"
         THEN Some(Unwrap(repository).repo)
         ELSE Unwrap(repository).url

(* What a call of get_project ends in: a value, an error, or a panic.       *)
Returned(info) == [kind |-> "Ok", info |-> info]
Failed(cause) == [kind |-> "Err", cause |-> cause]
Panicked(message) == [kind |-> "Panic", message |-> message]

\* get_project, from the package name on
project_named(root, manifest_path, manifest, root_auto_includes, package_name) ==
    LET repository_url == repository_url_of(manifest.repository)
        info == merge_auto_includes(
                    [name |-> package_name,
                     publish |-> TRUE,
                     authors |-> authors_of(manifest.author),
                     repository_url |-> repository_url,
                     readme_file |-> None,
                     license_files |-> <<>>,
                     changelog_file |-> None,
                     binaries |-> <<package_name>>],
                    root_auto_includes)
    IN  Returned([kind |-> "Rust",
                  target_dir |-> Join(root, <<"node_modules">>),
                  workspace_dir |-> root,
                  package_info |-> [id \in {package_name} |-> info],
                  manifest_path |-> manifest_path,
                  repository_url |-> repository_url,
                  root_auto_includes |-> root_auto_includes])

\* get_project with a missing name defaulting to the empty string
get_project_default_name ==
    IF workspace_root = None
    THEN Panicked("called Option::unwrap() on a None value")
    ELSE LET root == Unwrap(workspace_root)
             manifest_path == Join(root, <<"package.json">>)
             manifest == load_manifest(manifest_path)
             root_auto_includes == find_auto_includes(root)
         IN  IF ~manifest.ok THEN Failed(ErrOf(manifest))
             ELSE IF ~root_auto_includes.ok
                  THEN Failed(ErrOf(root_auto_includes))
             ELSE project_named(root, manifest_path, ValOf(manifest),
                                ValOf(root_auto_includes),
                                IF ValOf(manifest).name = None THEN ""
                                ELSE Unwrap(ValOf(manifest).name))

\* get_project
get_project ==
    IF workspace_root = None
    THEN Panicked("called Option::unwrap() on a None value")
    ELSE LET root == Unwrap(workspace_root)
             manifest_path == Join(root, <<"package.json">>)
             manifest == load_manifest(manifest_path)
             root_auto_includes == find_auto_includes(root)
         IN  IF ~manifest.ok THEN Failed(ErrOf(manifest))
             ELSE IF ~root_auto_includes.ok
                  THEN Failed(ErrOf(root_auto_includes))
             ELSE IF ValOf(manifest).name = None
                  THEN Panicked("your package doesn't have a name")
             ELSE project_named(root, manifest_path, ValOf(manifest),
                                ValOf(root_auto_includes),
                                Unwrap(ValOf(manifest).name))

-----------------------------------------------------------------------------
(* The inputs.  The directories are / with /a, /b and /a/b below it.  Three *)
(* families of filesystems are explored: one varies where manifests lie and *)
(* where the search starts and stops, one varies what the root manifest and *)
(* its members' manifests hold, one varies the package.json files.          *)

MaxMembers == 2

Dirs == {RootDir, <<"/", "a">>, <<"/", "b">>, <<"/", "a", "b">>}

SeqsUpTo(S, n) == UNION {[1..k -> S] : k \in 0..n}

Names == {"p", "q"}
Repositories == {None, Some("https://example.com/repo")}

NothingDeclared == [readme |-> None, license_files |-> <<>>, changelog |-> None]
AllDeclared ==
    [readme |-> Some(<<"docs", "README.md">>),
     license_files |-> << <<"docs", "LICENSE">> >>,
     changelog |-> Some(<<"docs", "CHANGES.md">>)]

PackageOf(n, r, d) ==
    [name |-> n, repository |-> r, readme |-> d.readme,
     license_files |-> d.license_files, changelog |-> d.changelog,
     binaries |-> <<n>>]

\* package sections: every name with and without a repository, declaring
\* none of readme, license-files and changelog, and one declaring all three
Packages ==
    {PackageOf(n, r, NothingDeclared) : n \in Names, r \in Repositories}
        \cup {PackageOf("p", None, AllDeclared)}

\* member entries: relative directories, and one absolute path
MemberLists ==
    SeqsUpTo({<<"a">>, <<"b">>}, MaxMembers)
        \cup {<< <<"/", "b">> >>, << <<"a">>, <<"/", "b">> >>}

Workspaces == {[members |-> None]} \cup {[members |-> Some(l)] : l \in MemberLists}

Opt(S) == {None} \cup {Some(x) : x \in S}

RootManifests == [workspace : Opt(Workspaces), package : Opt(Packages)]
MemberManifests == [workspace : {None}, package : Opt(Packages)]

SimplePackage == [workspace |-> None,
                  package |-> Some(PackageOf("p", None, NothingDeclared))]
EmptyManifest == [workspace |-> None, package |-> None]

Broke == {Unreadable, Unparsable}

\* what the scan of a directory finds: the listing fails, or it names the
\* conventional files present
ScanFailed == [kind |-> "Failed"]
Scanned(readme, licenses, changelog) ==
    [kind |-> "Scanned", readme |-> readme, licenses |-> licenses,
     changelog |-> changelog]
ScanNothing == Scanned(None, <<>>, None)
ScanAll == Scanned(Some(<<"README.md">>), << <<"LICENSE">> >>,
                   Some(<<"CHANGELOG.md">>))
Scans == {ScanFailed, ScanNothing, ScanAll}

PersonFields == {[kind |-> "Str", s |-> "A. Author"], [kind |-> "Obj"]}
JsRepositories ==
    {[kind |-> "Str", repo |-> "npm/npm"],
     [kind |-> "Obj", url |-> Some("https://example.com/js")],
     [kind |-> "Obj", url |-> None]}
JsManifests ==
    [name : Opt({"", "p"}), author : Opt(PersonFields),
     repository : Opt(JsRepositories)]
JsNamed == [name |-> Some("p"), author |-> None, repository |-> None]
JsUnnamed == [name |-> None, author |-> None, repository |-> None]

NoFiles == [d \in Dirs |-> NoFile]

NotCalled == [kind |-> "NotCalled"]
NoTrace == [expected |-> None, loaded |-> <<>>]

InitResults ==
    /\ search = NotCalled
    /\ trace = NoTrace
    /\ project = NotCalled

\* where the manifests lie, where the search starts and where it stops
InitSearch ==
    /\ dist_toml \in [Dirs -> {NoFile, Unreadable, Parsed(EmptyManifest),
                               Parsed(SimplePackage)}]
    /\ start_dir \in Dirs
    /\ clamp_to_dir \in Opt(Dirs)
    /\ auto_scan = ScanNothing
    /\ package_json = NoFiles
    /\ current_dir = RootDir

\* what the root manifest /dist.toml and the manifests of /a and /b hold
InitResolve ==
    /\ \E root \in Broke \cup {Parsed(m) : m \in RootManifests},
          a, b \in {NoFile} \cup Broke \cup {Parsed(m) : m \in MemberManifests} :
            dist_toml = [d \in Dirs |->
                            CASE d = RootDir -> root
                              [] d = <<"/", "a">> -> a
                              [] d = <<"/", "b">> -> b
                              [] OTHER -> NoFile]
    /\ start_dir = RootDir
    /\ clamp_to_dir = None
    /\ auto_scan \in Scans
    /\ package_json = NoFiles
    /\ current_dir = RootDir

\* where the package.json files lie and what the nearest one holds
InitJs ==
    /\ dist_toml = NoFiles
    /\ start_dir = RootDir
    /\ clamp_to_dir = None
    /\ auto_scan \in Scans
    /\ \/ /\ package_json \in [Dirs -> {NoFile, Unreadable, Parsed(JsNamed),
                                        Parsed(JsUnnamed)}]
          /\ current_dir \in Dirs
       \/ /\ \E f \in {Unparsable} \cup {Parsed(m) : m \in JsManifests} :
                package_json = [d \in Dirs |-> IF d = RootDir THEN f ELSE NoFile]
          /\ current_dir \in {RootDir, <<"/", "a">>}

Init == InitResults /\ (InitSearch \/ InitResolve \/ InitJs)

-----------------------------------------------------------------------------
(* The operations: one call of each detector.                               *)

GetWorkspace ==
    /\ search = NotCalled
    /\ search' = get_workspace(start_dir, clamp_to_dir)
    /\ trace' = LET found == find_file("dist.toml", start_dir, clamp_to_dir)
                IN  IF found.ok
                    THEN [expected |-> workspace_from(ValOf(found)).expected,
                          loaded |-> workspace_from(ValOf(found)).loaded]
                    ELSE NoTrace
    /\ UNCHANGED <<dist_toml, package_json, auto_scan, start_dir,
                   clamp_to_dir, current_dir, project>>

GetProject ==
    /\ project = NotCalled
    /\ project' = get_project
    /\ UNCHANGED <<dist_toml, package_json, auto_scan, start_dir,
                   clamp_to_dir, current_dir, search, trace>>

Next == GetWorkspace \/ GetProject

Spec == Init /\ [][Next]_vars

-----------------------------------------------------------------------------
(* What the properties speak of, stated on the filesystem itself.           *)

\* p and its ancestors
Ancestors(p) == {SubSeq(p, 1, k) : k \in 1..Len(p)}

\* the directories an upward search from start visits before it gives up
SearchedDirs(start, clamp) ==
    IF IsSome(clamp) /\ IsPrefix(Unwrap(clamp), start)
    THEN {d \in Ancestors(start) : IsPrefix(Unwrap(clamp), d)}
    ELSE Ancestors(start)

HoldingDirs(name, dirs) == {d \in dirs : FileAt(Join(d, <<name>>)) # NoFile}

\* the deepest of a non-empty set of directories of one ancestor chain
Deepest(dirs) == CHOOSE d \in dirs : \A e \in dirs : Len(e) <= Len(d)

DistDirs == HoldingDirs("dist.toml", SearchedDirs(start_dir, clamp_to_dir))
ManifestInBounds == DistDirs # {}
LocatedDir == Deepest(DistDirs)
LocatedPath == Join(LocatedDir, <<"dist.toml">>)
LocatedFile == FileAt(LocatedPath)

\* the root manifest was located and deserialized
RootParsed == ManifestInBounds /\ LocatedFile.kind = "Parsed"
RootManifest == LocatedFile.manifest
HasMemberList ==
    /\ RootParsed
    /\ IsSome(RootManifest.workspace)
    /\ IsSome(Unwrap(RootManifest.workspace).members)
MemberList == Unwrap(Unwrap(RootManifest.workspace).members)
MemberDir(i) == Join(LocatedDir, MemberList[i])

\* the member directories the root manifest stands for
Candidates ==
    IF HasMemberList THEN [i \in 1..Len(MemberList) |-> MemberDir(i)]
    ELSE <<LocatedDir>>
HasCandidates == RootParsed /\ (HasMemberList \/ IsSome(RootManifest.package))

\* what stands in the way of reading a package out of a member directory
MemberFile(dir) == FileAt(Join(dir, <<"dist.toml">>))
MemberFails(dir) ==
    \/ MemberFile(dir).kind # "Parsed"
    \/ MemberFile(dir).manifest.package = None
MemberError(dir) ==
    CASE MemberFile(dir).kind \in {"NoFile", "Unreadable"} ->
            ReadError(Join(dir, <<"dist.toml">>))
      [] MemberFile(dir).kind = "Unparsable" ->
            ParseError(Join(dir, <<"dist.toml">>))
      [] OTHER -> PackageMissingError(Join(dir, <<"dist.toml">>))
FailingMembers == {i \in 1..Len(Candidates) : MemberFails(Candidates[i])}
FirstFailing == CHOOSE i \in FailingMembers : \A j \in FailingMembers : i <= j

GenericCalled == search # NotCalled
IsFound == search.kind = "Found"
FoundPackages == search.info.package_info

-----------------------------------------------------------------------------
(* C1: when no dist.toml lies in any directory from the start directory up  *)
(* to the clamp (or the root), get_workspace returns Missing with the       *)
(* not-found cause; and it returns Missing only then, with no manifest read. *)
C1_MissingIffNoManifest ==
    GenericCalled =>
        /\ ~ManifestInBounds =>
              search = Missing(FileNotFound("dist.toml", start_dir, clamp_to_dir))
        /\ search.kind = "Missing" => ~ManifestInBounds /\ trace.loaded = <<>>

\* the clamp stops the search below a directory that holds a manifest
C1_Witness ==
    /\ search.kind = "Missing"
    /\ clamp_to_dir = Some(start_dir)
    /\ start_dir # RootDir
    /\ FileAt(Join(RootDir, <<"dist.toml">>)) # NoFile

(* C2: a located dist.toml that parses and has neither a workspace nor a    *)
(* package section gives Broken, with the located manifest's path and the   *)
(* DistTomlMalformedError naming it; no member list is computed and no      *)
(* other manifest is read.                                                  *)
C2_NeitherSectionIsBroken ==
    (/\ GenericCalled
     /\ RootParsed
     /\ RootManifest.workspace = None
     /\ RootManifest.package = None)
    => /\ search = Broken(LocatedPath, DistTomlMalformedError(LocatedPath))
       /\ trace.expected = None
       /\ trace.loaded = <<LocatedPath>>

\* an empty manifest above the start directory was located
C2_Witness ==
    /\ search.kind = "Broken"
    /\ RootParsed
    /\ RootManifest = EmptyManifest
    /\ LocatedDir # start_dir

\* the candidates, and the packages found, follow the member list members
\* of the workspace at dir
CandidatesFollow(dir, members) ==
    /\ trace.expected = Some([i \in 1..Len(members) |-> Join(dir, members[i])])
    /\ IsFound =>
          /\ search.info.workspace_dir = dir
          /\ Len(FoundPackages) = Len(members)
          /\ \A i \in 1..Len(members) :
                FoundPackages[i].manifest_path =
                    Join(Join(dir, members[i]), <<"dist.toml">>)

(* C4: a member list [m1, ..., mn] gives exactly the n candidate paths      *)
(* workspace_dir joined with mi, in the list's order, whatever those        *)
(* directories hold; a Found workspace then has n packages, the i-th read   *)
(* from the i-th candidate's dist.toml.                                     *)
C4_CandidatesFollowMembers ==
    (GenericCalled /\ HasMemberList) => CandidatesFollow(LocatedDir, MemberList)

\* members a and b of the workspace at the root, both found
C4_Witness ==
    /\ IsFound
    /\ HasMemberList
    /\ MemberList = << <<"a">>, <<"b">> >>
    /\ trace.expected = Some(<< <<"/", "a">>, <<"/", "b">> >>)
    /\ Len(FoundPackages) = 2

\* the least of a non-empty set of member indices
First(failing) == CHOOSE i \in failing : \A j \in failing : i <= j

\* a failing member is reported as Broken, with the first failure as cause
FirstFailureReported(path, cands, failing) ==
    /\ IsFound => failing = {}
    /\ failing # {} =>
          search = Broken(path, MemberError(cands[First(failing)]))

(* C3, as claimed: Found only when every candidate member gives a package;  *)
(* when a member fails the outcome is Broken, with the located root         *)
(* manifest's path and the error of the first failing member.               *)
C3_AsClaimed ==
    (GenericCalled /\ HasCandidates) =>
        FirstFailureReported(LocatedPath, Candidates, FailingMembers)

\* Found only when the scan and every member succeed; else Broken with the
\* error of what failed first, and nothing read after it
AllOrNothing(dir, path, cands, failing) ==
    /\ IsFound <=> (failing = {} /\ auto_scan # ScanFailed)
    /\ IsFound => Len(FoundPackages) = Len(cands)
    /\ search.kind # "Missing"
    /\ auto_scan = ScanFailed =>
          /\ search = Broken(path, AutoIncludeError(dir))
          /\ trace.loaded = <<path>>
    /\ (failing # {} /\ auto_scan # ScanFailed) =>
          /\ search = Broken(path, MemberError(cands[First(failing)]))
          /\ trace.loaded =
                <<path>> \o [i \in 1..First(failing) |->
                                Join(cands[i], <<"dist.toml">>)]

(* C3, amended: the same, except that the scan of the workspace root for    *)
(* conventional files runs before any member is read: when that scan fails  *)
(* the outcome is Broken with the scan's error and no member is read; when  *)
(* it succeeds the cause is the error of the first failing member, and no   *)
(* member after it is read.                                                 *)
C3_AllOrNothing ==
    (GenericCalled /\ HasCandidates) =>
        AllOrNothing(LocatedDir, LocatedPath, Candidates, FailingMembers)

\* the first member is fine, the second has no package section
C3_Witness ==
    /\ search.kind = "Broken"
    /\ HasMemberList
    /\ Len(MemberList) = 2
    /\ FailingMembers = {2}
    /\ search.cause.kind = "PackageMissingError"

\* the located manifest has a workspace and a package section
BothSections ==
    /\ RootParsed
    /\ IsSome(RootManifest.workspace)
    /\ IsSome(RootManifest.package)

\* the members a workspace section lists, none when it has no list
MembersOf(workspace) ==
    IF IsSome(workspace.members) THEN Unwrap(workspace.members) ELSE <<>>

\* the candidates are the members, and the root directory is none of them
AlwaysWorkspaceStyle(dir, members) ==
    /\ trace.expected = Some([i \in 1..Len(members) |-> Join(dir, members[i])])
    /\ \A i \in 1..Len(Unwrap(trace.expected)) : Unwrap(trace.expected)[i] # dir

(* C5, as claimed: a manifest with both sections is workspace-style: the    *)
(* candidates are those of the workspace section (none when it lists no     *)
(* members) and the root directory is not a candidate.                      *)
C5_AsClaimed ==
    (GenericCalled /\ BothSections) =>
        AlwaysWorkspaceStyle(LocatedDir, MembersOf(Unwrap(RootManifest.workspace)))

\* workspace-style with a member list, package-style without one
WorkspaceStyleNeedsMembers(dir, path, manifest) ==
    /\ IsSome(Unwrap(manifest.workspace).members) =>
          /\ trace.expected =
                Some([i \in 1..Len(MembersOf(Unwrap(manifest.workspace))) |->
                        Join(dir, MembersOf(Unwrap(manifest.workspace))[i])])
          /\ IsFound =>
                \A i \in 1..Len(FoundPackages) :
                    FoundPackages[i].manifest_path # path
    /\ ~IsSome(Unwrap(manifest.workspace).members) =>
          /\ trace.expected = Some(<<dir>>)
          /\ IsFound =>
                /\ Len(FoundPackages) = 1
                /\ FoundPackages[1].manifest_path = path
                /\ FoundPackages[1].name = Unwrap(manifest.package).name

(* C5, amended: a manifest with both sections whose workspace section has a *)
(* member list is workspace-style: the candidates are the members' paths    *)
(* and the root's own package is no member.  When the workspace section has *)
(* no member list the manifest is package-style: the root directory is the  *)
(* one candidate.                                                           *)
C5_WorkspaceStyleNeedsMembers ==
    (GenericCalled /\ BothSections) =>
        WorkspaceStyleNeedsMembers(LocatedDir, LocatedPath, RootManifest)

\* both sections, no member list: the root package is the one member
C5_Witness ==
    /\ IsFound
    /\ BothSections
    /\ ~HasMemberList
    /\ Len(FoundPackages) = 1

\* the package section of the manifest in a member directory
DeclaredPackage(dir) == Unwrap(MemberFile(dir).manifest.package)

\* the workspace has no repository exactly when no member declares one
AbsentIffNoneDeclares(cands) ==
    search.info.repository_url = None
        <=> \A i \in 1..Len(cands) : DeclaredPackage(cands[i]).repository = None

(* C6, as claimed: a Found workspace's repository_url is absent exactly     *)
(* when no member declares a repository.                                    *)
C6_AsClaimed == IsFound => AbsentIffNoneDeclares(Candidates)

\* the workspace has the repository the first member declares
RepositoryOfFirst(cands) ==
    search.info.repository_url =
        IF Len(cands) = 0 THEN None ELSE DeclaredPackage(cands[1]).repository

(* C6, amended: a Found workspace's repository_url is the repository the    *)
(* first member declares: absent when the first member declares none        *)
(* (whatever the later members declare) and when there is no member.        *)
C6_RepositoryOfFirstMember == IsFound => RepositoryOfFirst(Candidates)

\* the first member declares no repository, the second does
C6_Witness ==
    /\ IsFound
    /\ Len(FoundPackages) = 2
    /\ FoundPackages[1].repository_url = None
    /\ FoundPackages[2].repository_url # None
    /\ search.info.repository_url = None

\* a package holds what its manifest declared, and the conventional files
\* where it declared none
Merged(info, declared, auto_includes) ==
    /\ info.readme_file =
          IF IsSome(declared.readme) THEN declared.readme ELSE auto_includes.readme
    /\ info.license_files =
          IF Len(declared.license_files) > 0 THEN declared.license_files
          ELSE auto_includes.licenses
    /\ info.changelog_file =
          IF IsSome(declared.changelog) THEN declared.changelog
          ELSE auto_includes.changelog

GenericMerged(cands) ==
    \A i \in 1..Len(cands) :
        Merged(FoundPackages[i], DeclaredPackage(cands[i]),
               search.info.root_auto_includes)

JsMerged ==
    \A id \in DOMAIN project.info.package_info :
        Merged(project.info.package_info[id], NothingDeclared,
               project.info.root_auto_includes)

(* C7: in every workspace a detector returns, each package keeps the        *)
(* readme, license files and changelog its manifest declares, and has each  *)
(* one it does not declare filled from the conventional files the scan of   *)
(* the workspace root found.                                                *)
C7_AsClaimed ==
    /\ IsFound => GenericMerged(Candidates)
    /\ project.kind = "Ok" => JsMerged

(* C8: the packages of a Found workspace have pairwise distinct names.      *)
C8_AsClaimed ==
    IsFound =>
        \A i, j \in 1..Len(FoundPackages) :
            i # j => FoundPackages[i].name # FoundPackages[j].name

(* C9: every package of a Found workspace has as package_root the directory *)
(* that holds its manifest (manifest_path is package_root joined with       *)
(* dist.toml, and differs from it), at or below the workspace directory.    *)
C9_AsClaimed ==
    IsFound =>
        \A i \in 1..Len(FoundPackages) :
            /\ FoundPackages[i].manifest_path =
                  Join(FoundPackages[i].package_root, <<"dist.toml">>)
            /\ FoundPackages[i].package_root # FoundPackages[i].manifest_path
            /\ IsPrefix(search.info.workspace_dir, FoundPackages[i].package_root)

-----------------------------------------------------------------------------
JsDirs == HoldingDirs("package.json", Ancestors(current_dir))
JsLocated == Deepest(JsDirs)
JsFile == FileAt(Join(JsLocated, <<"package.json">>))
JsCalled == project # NotCalled

\* no result for a manifest without a name; a result holds one package,
\* keyed and named by the manifest's name
NamedOrNothing(dir, file) ==
    /\ (file.kind = "Parsed" /\ file.manifest.name = None) =>
          /\ project.kind # "Ok"
          /\ auto_scan # ScanFailed => project.kind = "Panic"
    /\ project.kind = "Ok" =>
          /\ file.kind = "Parsed"
          /\ IsSome(file.manifest.name)
          /\ project.info.workspace_dir = dir
          /\ DOMAIN project.info.package_info = {Unwrap(file.manifest.name)}
          /\ \A id \in DOMAIN project.info.package_info :
                /\ project.info.package_info[id].name = id
                /\ project.info.package_info[id].binaries = <<id>>

====
